---- MODULE Spec2Model ----
(***************************************************************************)
(* Model of src/src/dist.py: the two command handlers show_dist and        *)
(* show_biv_dist.  Each handler parses a token list with argparse, checks  *)
(* the output file name, builds a seaborn displot, saves it and displays   *)
(* the saved image.                                                        *)
(*                                                                         *)
(* Strings that the code only compares (tokens, column names, file names)  *)
(* are TLA+ strings.  Cell values of the non-numerical columns are joined  *)
(* by the code ('_'.join), so they are sequences of characters.            *)
(***************************************************************************)
EXTENDS Integers, Sequences, FiniteSets, TLC

VARIABLES
    data,         \* the caller's dataframe (argument `data` of both handlers)
    handler,      \* the handler being executed, "none" between calls
    args,         \* argument `args` of the running call
    pc,           \* position inside the running handler
    parsed_args,  \* local `parsed_args` (argparse Namespace)
    plot_data,    \* local `plot_data` of the *_by_categoricals helpers
    plot,         \* local `plot` (the seaborn FacetGrid)
    written,      \* paths given to plot.figure.savefig in this call
    displayed,    \* paths given to Image.open(...).show() in this call
    checked,      \* the call of utils.check_valid_png: its argument and result
    trace,        \* steps executed by this call, in order
    error,        \* exception that left the handler, "none" if none
    history,      \* the first and the last call that finished
    on_none       \* what utils.check_valid_png does when given None

vars == <<data, handler, args, pc, parsed_args, plot_data, plot, written,
          displayed, checked, trace, error, history, on_none>>

----------------------------------------------------------------------------
(* Bounds *)

\* Largest number of rows of the dataframe.
MaxRows == 4

\* Largest number of tokens of a freely chosen token list.
MaxArgs == 5

----------------------------------------------------------------------------
(* Python values *)

\* Python's None; no token, column name or file name equals it.
None == "None"

Min(a, b) == IF a < b THEN a ELSE b

Range(s) == {s[i] : i \in 1..Len(s)}

\* All sequences over S of length 0..n.
SeqsUpTo(S, n) == UNION {[1..k -> S] : k \in 0..n}

----------------------------------------------------------------------------
(* The dataframe *)

\* Column labels of the dataframe, data.columns.values.
Columns == <<"n1", "n2", "c1", "c2">>

\* The rows a dataframe is drawn from: two numerical columns and two string
\* columns.  "a"+"b_c" and "a_b"+"c" are different pairs of values.
RowKinds ==
    << [n1 |-> 1, n2 |-> 1, c1 |-> <<"a">>,           c2 |-> <<"b", "_", "c">>],
       [n1 |-> 2, n2 |-> 1, c1 |-> <<"a", "_", "b">>, c2 |-> <<"c">>],
       [n1 |-> 3, n2 |-> 2, c1 |-> <<"b">>,           c2 |-> <<"c">>],
       [n1 |-> 4, n2 |-> 2, c1 |-> <<"d">>,           c2 |-> <<"c">>] >>

\* A dataframe with the default RangeIndex built from a sequence of rows.
DataFrame(rows) ==
    [ index   |-> [i \in 1..Len(rows) |-> i - 1],
      columns |-> Columns,
      n1      |-> [i \in 1..Len(rows) |-> rows[i].n1],
      n2      |-> [i \in 1..Len(rows) |-> rows[i].n2],
      c1      |-> [i \in 1..Len(rows) |-> rows[i].c1],
      c2      |-> [i \in 1..Len(rows) |-> rows[i].c2] ]

\* Every dataframe of 1..MaxRows rows.
Datasets == {DataFrame(rows) : rows \in SeqsUpTo(Range(RowKinds), MaxRows) \ {<<>>}}

\* The dataframe that holds each row kind once.
SampleDatasets ==
    {DataFrame(SubSeq(RowKinds, 1, Min(MaxRows, Len(RowKinds))))}

\* df[c]: the values of column c, by row position.
Column(df, c) ==
    CASE c = "n1" -> df.n1
      [] c = "n2" -> df.n2
      [] c = "c1" -> df.c1
      [] c = "c2" -> df.c2

NRows(df) == Len(df.index)

\* utils.get_numericals(data): the labels of the numerical columns.
get_numericals(df) == SelectSeq(df.columns, LAMBDA c : c \in {"n1", "n2"})

\* Whether the cells of column c are Python str objects.
IsStrColumn(c) == c \in {"c1", "c2"}

----------------------------------------------------------------------------
(* argparse, as the handlers use it: the parsing loop of CPython 3.11.     *)
(* The option strings are matched exactly; abbreviated long options, the   *)
(* "-ofile" and "--outfile=file" forms, "--" and the help option that      *)
(* ArgumentParser adds are left out of the token alphabet.                 *)

\* parser.add_argument for a positional: nargs is "1" (nargs=None) or "?".
Positional(dest, nargs, choices, default) ==
    [ dest |-> dest, option_strings |-> {}, nargs |-> nargs,
      has_choices |-> TRUE, choices |-> choices,
      default |-> default, const |-> None ]

\* parser.add_argument for an option: nargs is "?" or "*"; const is not given.
Optional(flags, dest, nargs, default, has_choices, choices) ==
    [ dest |-> dest, option_strings |-> flags, nargs |-> nargs,
      has_choices |-> has_choices, choices |-> choices,
      default |-> default, const |-> None ]

\* A default file name with another extension.
DefaultOutfileJpg == "output.jpg"

\* default='output.png' of -o/--outfile.
DefaultOutfile == "output.png"

\* default=[] of -c/--categoricals.
DefaultCategoricals == <<>>

\* default='heatmap' of plot_type.
DefaultPlotType == "heatmap"

\* choices=('heatmap', 'gaussian') of plot_type.
PlotTypes == {"heatmap", "gaussian"}

\* The two options, -c/--categoricals declared without choices.
OptionActionsNoChoices(df) ==
    << Optional({"-o", "--outfile"}, "outfile", "?", DefaultOutfile, FALSE, {}),
       Optional({"-c", "--categoricals"}, "categoricals", "*", DefaultCategoricals,
                FALSE, {}) >>

\* The two options both parsers declare.
OptionActions(df) ==
    << Optional({"-o", "--outfile"}, "outfile", "?", DefaultOutfile, FALSE, {}),
       Optional({"-c", "--categoricals"}, "categoricals", "*", DefaultCategoricals,
                TRUE, Range(df.columns)) >>

\* The parser show_dist builds.
DistParser(df) ==
    [ positionals |-> << Positional("var", "1", Range(get_numericals(df)), None) >>,
      optionals   |-> OptionActions(df) ]

\* The parser show_biv_dist builds.
BivParser(df) ==
    [ positionals |-> << Positional("v1", "1", Range(get_numericals(df)), None),
                         Positional("v2", "1", Range(get_numericals(df)), None),
                         Positional("plot_type", "?", PlotTypes, DefaultPlotType) >>,
      optionals   |-> OptionActions(df) ]

ParserOf(h, df) == IF h = "show_dist" THEN DistParser(df) ELSE BivParser(df)

\* A Namespace with no attribute set by a parser.
EmptyNamespace ==
    [ var |-> None, v1 |-> None, v2 |-> None, plot_type |-> None,
      outfile |-> None, categoricals |-> <<>> ]

\* setattr(namespace, action.dest, action.default) for actions[k..].
RECURSIVE SetDefaults(_, _, _)
SetDefaults(ns, actions, k) ==
    IF k > Len(actions) THEN ns
    ELSE SetDefaults([ns EXCEPT ![actions[k].dest] = actions[k].default], actions, k + 1)

\* A Namespace that survives from the previous call of the same handler.
InitialNamespaceRetained(p, h, last) ==
    IF last.handler = h
    THEN last.ns
    ELSE SetDefaults(EmptyNamespace, p.positionals \o p.optionals, 1)

\* The Namespace parse_args starts from: a new one, in which every action's
\* default is set.  `last` is the previous call, which the parser built by
\* this call never sees.
InitialNamespace(p, h, last) ==
    SetDefaults(EmptyNamespace, p.positionals \o p.optionals, 1)

\* The option strings of a parser.
OptionStrings(p) == UNION {p.optionals[i].option_strings : i \in 1..Len(p.optionals)}

\* The action an option string belongs to.
OptionAction(p, flag) ==
    p.optionals[CHOOSE i \in 1..Len(p.optionals) : flag \in p.optionals[i].option_strings]

\* arg_strings_pattern: TRUE at the positions that hold an option string ('O').
IsO(p, tokens, i) == tokens[i] \in OptionStrings(p)

\* Number of consecutive 'A's of the pattern from position i on.
RECURSIVE CountA(_, _, _)
CountA(p, tokens, i) ==
    IF i > Len(tokens) \/ IsO(p, tokens, i) THEN 0 ELSE 1 + CountA(p, tokens, i + 1)

\* re.match of the nargs patterns of actions[k..n] at position pos: the
\* number of strings each action takes (greedy, with backtracking), or no match.
RECURSIVE MatchFrom(_, _, _, _, _, _)
MatchFrom(p, tokens, actions, k, n, pos) ==
    IF k > n THEN [ok |-> TRUE, counts |-> <<>>]
    ELSE LET isA  == pos <= Len(tokens) /\ ~IsO(p, tokens, pos)
             take == IF isA THEN MatchFrom(p, tokens, actions, k + 1, n, pos + 1)
                     ELSE [ok |-> FALSE, counts |-> <<>>]
             skip == MatchFrom(p, tokens, actions, k + 1, n, pos)
         IN  IF take.ok THEN [ok |-> TRUE, counts |-> <<1>> \o take.counts]
             ELSE IF actions[k].nargs = "?" /\ skip.ok
                  THEN [ok |-> TRUE, counts |-> <<0>> \o skip.counts]
                  ELSE [ok |-> FALSE, counts |-> <<>>]

\* _match_arguments_partial: the counts of the longest prefix of `actions`
\* whose patterns match at pos; <<>> when none does.
RECURSIVE MatchPartial(_, _, _, _, _)
MatchPartial(p, tokens, actions, n, pos) ==
    IF n = 0 THEN <<>>
    ELSE LET m == MatchFrom(p, tokens, actions, 1, n, pos)
         IN  IF m.ok THEN m.counts ELSE MatchPartial(p, tokens, actions, n - 1, pos)

\* _check_value on every string of a list: TRUE if all are among the choices.
AllChosen(action, strings) ==
    ~action.has_choices \/ \A i \in 1..Len(strings) : strings[i] \in action.choices

\* _get_values and _check_value: the value stored for an action given the
\* strings it took, and whether a string is an invalid choice.
GetValues(action, strings) ==
    IF action.nargs = "*"
    THEN [err |-> ~AllChosen(action, strings), value |-> strings]
    ELSE IF strings = <<>>
         THEN \* nargs='?' with no string: const for an option, default for a positional
              LET v == IF action.option_strings # {} THEN action.const ELSE action.default
              IN  [err |-> v # None /\ action.has_choices /\ v \notin action.choices,
                   value |-> v]
         ELSE [err |-> ~AllChosen(action, strings), value |-> strings[1]]

\* take_action with the store action: setattr(namespace, dest, value).
TakeAction(st, action, strings) ==
    LET g == GetValues(action, strings)
    IN  IF g.err
        THEN [st EXCEPT !.err = "invalid choice"]
        ELSE [st EXCEPT !.ns = [st.ns EXCEPT ![action.dest] = g.value],
                        !.seen = st.seen \cup {action.dest}]

\* consume_positionals: the matched positionals take their strings in order.
RECURSIVE TakePositionals(_, _, _, _, _)
TakePositionals(st, tokens, counts, k, pos) ==
    IF k > Len(counts) \/ st.err # "none"
    THEN [st |-> st, index |-> pos]
    ELSE TakePositionals(
             [TakeAction(st, st.positionals[1], SubSeq(tokens, pos, pos + counts[k] - 1))
                 EXCEPT !.positionals = Tail(st.positionals)],
             tokens, counts, k + 1, pos + counts[k])

ConsumePositionals(p, st, tokens, start) ==
    TakePositionals(st, tokens,
                    MatchPartial(p, tokens, st.positionals, Len(st.positionals), start),
                    1, start)

\* consume_optional: the option at `start` takes the strings its nargs allows.
ConsumeOptional(p, st, tokens, start) ==
    LET action == OptionAction(p, tokens[start])
        avail  == CountA(p, tokens, start + 1)
        count  == IF action.nargs = "?" THEN Min(avail, 1) ELSE avail
    IN  [st |-> TakeAction(st, action, SubSeq(tokens, start + 1, start + count)),
         index |-> start + 1 + count]

\* Positions of option strings at or after `start`.
OptionIndices(p, tokens, start) == {i \in start..Len(tokens) : IsO(p, tokens, i)}

SetMin(S) == CHOOSE x \in S : \A y \in S : x <= y

\* The main loop of _parse_known_args from position `start` on.
RECURSIVE ParseFrom(_, _, _, _)
ParseFrom(p, st, tokens, start) ==
    IF st.err # "none" THEN st
    ELSE IF OptionIndices(p, tokens, start) # {}
    THEN LET next == SetMin(OptionIndices(p, tokens, start))
             cp   == IF start # next
                     THEN ConsumePositionals(p, st, tokens, start)
                     ELSE [st |-> st, index |-> start]
         IN  IF cp.index > start
             THEN ParseFrom(p, cp.st, tokens, cp.index)
             ELSE IF cp.st.err # "none" THEN cp.st
             ELSE LET st2 == [cp.st EXCEPT !.extras = @ \o SubSeq(tokens, start, next - 1)]
                      co  == ConsumeOptional(p, st2, tokens, next)
                  IN  ParseFrom(p, co.st, tokens, co.index)
    ELSE LET cp == ConsumePositionals(p, st, tokens, start)
         IN  IF cp.st.err # "none" THEN cp.st
             ELSE [cp.st EXCEPT !.extras = @ \o SubSeq(tokens, cp.index, Len(tokens))]

\* Destinations of the required actions (positionals with nargs=None).
Required(p) ==
    {p.positionals[i].dest : i \in {j \in 1..Len(p.positionals) : p.positionals[j].nargs = "1"}}

\* parser.parse_args(tokens): the Namespace, or the usage error that ends
\* the command (parser.error raises SystemExit).
parse_args(h, df, tokens, last) ==
    LET p  == ParserOf(h, df)
        st == ParseFrom(p, [ ns |-> InitialNamespace(p, h, last),
                             positionals |-> p.positionals,
                             seen |-> {}, extras |-> <<>>, err |-> "none" ],
                        tokens, 1)
    IN  IF st.err # "none" THEN [err |-> st.err, ns |-> EmptyNamespace]
        ELSE IF ~(Required(p) \subseteq st.seen)
             THEN [err |-> "required", ns |-> EmptyNamespace]
        ELSE IF st.extras # <<>>
             THEN [err |-> "unrecognized", ns |-> EmptyNamespace]
        ELSE [err |-> "none", ns |-> st.ns]

----------------------------------------------------------------------------
(* utils.check_valid_png: the module utils is not part of the sources, so  *)
(* it is modelled from the specification ("the output filename's extension *)
(* is not a supported image type").                                        *)

\* The extension of each file name the token alphabet holds; "" for a token
\* with no extension.
Extension(f) ==
    CASE f = "output.png" -> "png"
      [] f = "a.png"      -> "png"
      [] f = "a.txt"      -> "txt"
      [] OTHER            -> ""

\* The extensions taken as supported image types.
ImageExtensions == {"png"}

\* What utils.check_valid_png can do with None, which has no extension: it
\* reports the name as invalid or it fails on it.  Which of the two is not
\* specified; it is the same in every call.
NoneResults == {"-1", "raise"}

\* The result of utils.check_valid_png(filename): "0", "-1", or "raise"
\* for an exception.
check_valid_png(filename) ==
    IF filename = None THEN on_none
    ELSE IF Extension(filename) \in ImageExtensions THEN "0"
    ELSE "-1"

----------------------------------------------------------------------------
(* pandas and seaborn, as the plot helpers use them.  The dataframe holds  *)
(* no missing value, and displot is taken to succeed on the data it is     *)
(* given.                                                                  *)

\* A narrower wrap.
ColWrapTwo == 3 - 1

\* col_wrap=3 of every faceted displot call.
ColWrap == 3

\* '_'.join(row) for a tuple of str values.
RECURSIVE Join(_)
Join(row) ==
    IF Len(row) = 0 THEN <<>>
    ELSE IF Len(row) = 1 THEN row[1]
    ELSE row[1] \o <<"_">> \o Join(Tail(row))

\* df.set_index(keys) as if inplace=True had been passed: the frame itself
\* is re-indexed.
set_index_inplace(df, keys) ==
    LET new == [ index   |-> [i \in 1..NRows(df) |->
                                 [k \in 1..Len(keys) |-> Column(df, keys[k])[i]]],
                 columns |-> SelectSeq(df.columns, LAMBDA c : c \notin Range(keys)),
                 n1      |-> IF "n1" \in Range(keys) THEN <<>> ELSE df.n1,
                 n2      |-> IF "n2" \in Range(keys) THEN <<>> ELSE df.n2,
                 c1      |-> IF "c1" \in Range(keys) THEN <<>> ELSE df.c1,
                 c2      |-> IF "c2" \in Range(keys) THEN <<>> ELSE df.c2 ]
    IN  [result |-> new, self |-> new]

\* df.set_index(keys): `result` is the new frame, whose index holds the
\* tuples of the key columns' values and whose columns no longer hold the
\* keys (drop=True); `self` is df after the call, which is left as it was
\* because inplace=True is not passed.
set_index(df, keys) ==
    [ result |-> [ index   |-> [i \in 1..NRows(df) |->
                                   [k \in 1..Len(keys) |-> Column(df, keys[k])[i]]],
                   columns |-> SelectSeq(df.columns, LAMBDA c : c \notin Range(keys)),
                   n1      |-> IF "n1" \in Range(keys) THEN <<>> ELSE df.n1,
                   n2      |-> IF "n2" \in Range(keys) THEN <<>> ELSE df.n2,
                   c1      |-> IF "c1" \in Range(keys) THEN <<>> ELSE df.c1,
                   c2      |-> IF "c2" \in Range(keys) THEN <<>> ELSE df.c2 ],
      self   |-> df ]

\* plot_data.index = ['_'.join(row) for row in plot_data.index.values]
FuseIndex(df) == [df EXCEPT !.index = [i \in 1..NRows(df) |-> Join(df.index[i])]]

\* The distinct values of a vector, in order of first appearance.
RECURSIVE Unique(_)
Unique(vec) ==
    IF vec = <<>> THEN <<>>
    ELSE LET front == Unique(SubSeq(vec, 1, Len(vec) - 1))
             last  == vec[Len(vec)]
         IN  IF \E i \in 1..Len(front) : front[i] = last THEN front
             ELSE Append(front, last)

\* No dataframe (a local that is not bound).
NoFrame ==
    [ index |-> <<>>, columns |-> <<>>, n1 |-> <<>>, n2 |-> <<>>, c1 |-> <<>>, c2 |-> <<>> ]

\* No figure.
NoPlot ==
    [ kind |-> "none", kde |-> FALSE, x |-> None, y |-> None, bins |-> None,
      faceted |-> FALSE, col |-> <<>>, col_names |-> <<>>, col_wrap |-> 0,
      title |-> <<>>, suptitle |-> <<>> ]

\* sns.displot(data=df, x=x, y=y, kind=kind, kde=kde, bins=bins): one plot.
displot(df, x, y, kind, kde, bins) ==
    [ kind |-> kind, kde |-> kde, x |-> x, y |-> y, bins |-> bins,
      faceted |-> FALSE, col |-> <<>>, col_names |-> <<>>, col_wrap |-> 0,
      title |-> <<>>, suptitle |-> <<>> ]

\* sns.displot(..., col=col, col_wrap=col_wrap): col is a vector with one
\* label per row (seaborn resolves a column name to data[name]); the grid
\* has one facet per distinct label.
displot_col(df, x, y, kind, kde, bins, col, col_wrap) ==
    [ kind |-> kind, kde |-> kde, x |-> x, y |-> y, bins |-> bins,
      faceted |-> TRUE, col |-> col, col_names |-> Unique(col), col_wrap |-> col_wrap,
      title |-> <<>>, suptitle |-> <<>> ]

\* The facets of a grid, and the grid cell of facet j (1-based) when the
\* facets are wrapped: row and column, both from 0.
NFacets(g) == IF g.faceted THEN Len(g.col_names) ELSE 1

FacetCell(g, j) == [row |-> (j - 1) \div g.col_wrap, col |-> (j - 1) % g.col_wrap]

\* The positions of the rows drawn in facet j.
FacetRows(g, j) == {i \in 1..Len(g.col) : g.col[i] = g.col_names[j]}

\* __plot_dist(data, var)
plot_dist(df, var) ==
    [displot(df, var, None, "hist", TRUE, "sqrt")
        EXCEPT !.title = <<"DISTRIBUTION OF", var>>]

\* __plot_dist_by_categoricals(data, var, categoricals): the grid, the local
\* plot_data, the caller's frame after the call, and the exception raised.
plot_dist_by_categoricals(df, var, categoricals) ==
    IF Len(categoricals) > 1
    THEN LET si == set_index(df, categoricals)
         IN  IF \E k \in 1..Len(categoricals) : ~IsStrColumn(categoricals[k])
             THEN \* '_'.join of a tuple holding a number
                  [err |-> "TypeError", plot |-> NoPlot, plot_data |-> si.result,
                   data |-> si.self]
             ELSE LET pd == FuseIndex(si.result)
                  IN  [err |-> "none", plot_data |-> pd, data |-> si.self,
                       plot |-> [displot_col(pd, var, None, "hist", TRUE, "sqrt",
                                             pd.index, ColWrap)
                                    EXCEPT !.suptitle =
                                        <<"DISTRIBUTION OF", var, "BY", categoricals>>]]
    ELSE [err |-> "none", plot_data |-> NoFrame, data |-> df,
          plot |-> [displot_col(df, var, None, "hist", TRUE, "sqrt",
                                Column(df, categoricals[1]), ColWrap)
                       EXCEPT !.suptitle = <<"DISTRIBUTION OF", var, "BY", categoricals>>]]

\* The kind that ignores the plot type.
KindAlwaysHist(plot_type) == "hist"

\* kind = 'kde' if (plot_type == 'gaussian') else 'hist'
Kind(plot_type) == IF plot_type = "gaussian" THEN "kde" ELSE "hist"

\* __plot_biv_dist(data, v1, v2, plot_type)
plot_biv_dist(df, v1, v2, plot_type) ==
    [displot(df, v1, v2, Kind(plot_type), FALSE, None)
        EXCEPT !.title = <<"DISTRIBUTION OF", v1, v2>>]

\* __plot_biv_dist_by_categoricals(data, v1, v2, plot_type, categoricals)
plot_biv_dist_by_categoricals(df, v1, v2, plot_type, categoricals) ==
    IF Len(categoricals) > 1
    THEN LET si == set_index(df, categoricals)
         IN  IF \E k \in 1..Len(categoricals) : ~IsStrColumn(categoricals[k])
             THEN [err |-> "TypeError", plot |-> NoPlot, plot_data |-> si.result,
                   data |-> si.self]
             ELSE LET pd == FuseIndex(si.result)
                  IN  [err |-> "none", plot_data |-> pd, data |-> si.self,
                       plot |-> [displot_col(df, v1, v2, Kind(plot_type), FALSE, None,
                                             pd.index, ColWrap)
                                    EXCEPT !.suptitle =
                                        <<"DISTRIBUTION OF", v1, v2, "BY", categoricals>>]]
    ELSE [err |-> "none", plot_data |-> NoFrame, data |-> df,
          plot |-> [displot_col(df, v1, v2, Kind(plot_type), FALSE, None,
                                Column(df, categoricals[1]), ColWrap)
                       EXCEPT !.suptitle =
                           <<"DISTRIBUTION OF", v1, v2, "BY", categoricals>>]]

----------------------------------------------------------------------------
(* The handlers, step by step *)

\* No call has finished yet.
NoCall ==
    [ handler |-> "none", args |-> <<>>, ns |-> EmptyNamespace,
      pc |-> "idle", error |-> "none", plot |-> NoPlot,
      written |-> <<>>, displayed |-> <<>> ]

NoHistory == [first |-> NoCall, last |-> NoCall]

\* utils.check_valid_png has not been called in this call.
NotChecked == [arg |-> None, result |-> "none"]

\* The state between two calls: no handler runs and no local is bound.
Idle ==
    /\ handler = "none"
    /\ args = <<>>
    /\ pc = "idle"
    /\ parsed_args = EmptyNamespace
    /\ plot_data = NoFrame
    /\ plot = NoPlot
    /\ written = <<>>
    /\ displayed = <<>>
    /\ checked = NotChecked
    /\ trace = <<>>
    /\ error = "none"

\* Lines 31-40 and 120-134: the handler is entered, builds its parser and
\* parses the tokens; a usage error leaves the handler as SystemExit.
Enter(h, tokens) ==
    /\ pc = "idle"
    /\ handler' = h
    /\ args' = tokens
    /\ trace' = <<"parse">>
    /\ LET r == parse_args(h, data, tokens, history.last)
       IN  IF r.err # "none"
           THEN /\ pc' = "raised"
                /\ error' = "SystemExit"
                /\ parsed_args' = EmptyNamespace
           ELSE /\ pc' = "parsed"
                /\ error' = "none"
                /\ parsed_args' = r.ns
    /\ UNCHANGED <<data, plot_data, plot, written, displayed, checked, history, on_none>>

\* The check whose early return is missing.
AfterCheckNoReturn(r) == IF r = "raise" THEN "raised" ELSE "checked"

\* if utils.check_valid_png(parsed_args.outfile) == -1: return
\* Where the handler is after the check returned r (or raised).
AfterCheck(r) ==
    IF r = "raise" THEN "raised"
    ELSE IF r = "-1" THEN "returned"
    ELSE "checked"

\* Lines 43-44 and 137-138: the extension check and the early return.
CheckOutfile ==
    /\ pc = "parsed"
    /\ trace' = Append(trace, "check")
    /\ LET r == check_valid_png(parsed_args.outfile)
       IN  /\ checked' = [arg |-> parsed_args.outfile, result |-> r]
           /\ pc' = AfterCheck(r)
           /\ error' = IF r = "raise" THEN "check_valid_png" ELSE "none"
    /\ UNCHANGED <<data, handler, args, parsed_args, plot_data, plot, written,
                   displayed, history, on_none>>

\* Lines 46-49 of show_dist: the result of the plot helper chosen.
DistPlot(df, ns) ==
    IF ns.categoricals = <<>>
    THEN [err |-> "none", plot |-> plot_dist(df, ns.var), plot_data |-> NoFrame,
          data |-> df]
    ELSE plot_dist_by_categoricals(df, ns.var, ns.categoricals)

\* Lines 140-144 of show_biv_dist: the result of the plot helper chosen.
BivPlot(df, ns) ==
    IF ns.categoricals = <<>>
    THEN [err |-> "none", plot |-> plot_biv_dist(df, ns.v1, ns.v2, ns.plot_type),
          plot_data |-> NoFrame, data |-> df]
    ELSE plot_biv_dist_by_categoricals(df, ns.v1, ns.v2, ns.plot_type, ns.categoricals)

\* Lines 46-49 and 140-144: the plot is built; an exception of the helper
\* leaves the handler.
BuildPlot ==
    /\ pc = "checked"
    /\ trace' = Append(trace, "plot")
    /\ LET r == IF handler = "show_dist" THEN DistPlot(data, parsed_args)
                ELSE BivPlot(data, parsed_args)
       IN  /\ data' = r.data
           /\ plot_data' = r.plot_data
           /\ plot' = r.plot
           /\ error' = r.err
           /\ pc' = IF r.err = "none" THEN "plotted" ELSE "raised"
    /\ UNCHANGED <<handler, args, parsed_args, written, displayed, checked, history, on_none>>

\* The path the figure is saved to.
SavePath(ns) == ns.outfile

\* The default path, whatever was parsed.
DisplayPathDefault(ns) == DefaultOutfile

\* The path opened for display.
DisplayPath(ns) == ns.outfile

\* Lines 52 and 147: plot.figure.savefig(parsed_args.outfile)
Save ==
    /\ pc = "plotted"
    /\ trace' = Append(trace, "save")
    /\ written' = Append(written, SavePath(parsed_args))
    /\ pc' = "saved"
    /\ UNCHANGED <<data, handler, args, parsed_args, plot_data, plot, displayed,
                   checked, error, history, on_none>>

\* Lines 55-56 and 150-151: Image.open(parsed_args.outfile).show(), after
\* which the handler returns.
Display ==
    /\ pc = "saved"
    /\ trace' = Append(trace, "display")
    /\ displayed' = Append(displayed, DisplayPath(parsed_args))
    /\ pc' = "returned"
    /\ UNCHANGED <<data, handler, args, parsed_args, plot_data, plot, written,
                   checked, error, history, on_none>>

\* Whether the running call has ended, by a return or by an exception.
Finished == pc \in {"returned", "raised"}

\* What a finished call did, as the caller can observe it.
CallRecord ==
    [ handler |-> handler, args |-> args, ns |-> parsed_args,
      pc |-> pc, error |-> error, plot |-> plot,
      written |-> written, displayed |-> displayed ]

\* Control is back in the caller: the locals of the call are gone.
Leave ==
    /\ Finished
    /\ handler' = "none"
    /\ args' = <<>>
    /\ pc' = "idle"
    /\ parsed_args' = EmptyNamespace
    /\ plot_data' = NoFrame
    /\ plot' = NoPlot
    /\ written' = <<>>
    /\ displayed' = <<>>
    /\ checked' = NotChecked
    /\ trace' = <<>>
    /\ error' = "none"
    /\ UNCHANGED <<data, on_none>>

\* The caller goes on without a record of the call.
Return == Leave /\ UNCHANGED history

\* The caller goes on, the history holding what the call did.
ReturnRecorded ==
    /\ Leave
    /\ history' = [ first |-> IF history.first.handler = "none" THEN CallRecord
                               ELSE history.first,
                    last  |-> CallRecord ]

----------------------------------------------------------------------------
(* Inputs *)

\* Tokens given to show_dist: two numerical columns, a string column, the
\* two options and a file name (which is no column label).
DistTokens == {"n1", "n2", "c1", "-o", "-c", "a.png"}

\* Tokens given to show_biv_dist: a numerical column, the plot types and a
\* word that is none, the two options and a file name.
BivTokens == {"n1", "gaussian", "heatmap", "blur", "-o", "-c", "a.txt"}

DistArgs == SeqsUpTo(DistTokens, MaxArgs)

BivArgs == SeqsUpTo(BivTokens, MaxArgs)

\* What is given to -c/--categoricals: one column, or two string columns.
CategoricalLists ==
    {<<c>> : c \in {"n1", "c1", "c2"}} \cup {<<c, d>> : c, d \in {"c1", "c2"}}

\* Calls with categoricals.
DistFacetArgs == {<<"n1", "-c">> \o c : c \in CategoricalLists}

BivFacetArgs ==
    {<<"n1", "n2">> \o t \o <<"-c">> \o c :
        t \in {<<>>, <<"gaussian">>}, c \in CategoricalLists}

\* A few calls of each outcome, for runs of several calls.
DistFewArgs ==
    { <<"n1">>, <<"n1", "-o">>, <<"n1", "-o", "a.png">>, <<"n1", "-o", "a.txt">>,
      <<"n1", "-c", "c1">>, <<"n1", "-c", "c1", "c2">>, <<"n1", "-c">>,
      <<"n1", "-c", "c2", "-o", "a.png">>, <<"zz">>, <<"n2">>,
      <<"n2", "--outfile", "a.png">>, <<"n1", "--categoricals", "c2">> }

BivFewArgs ==
    { <<"n1", "n2">>, <<"n1", "n2", "gaussian">>, <<"n1", "n2", "heatmap">>,
      <<"n1", "n2", "blur">>, <<"n1", "n2", "-o", "a.png">>, <<"n1", "n2", "-o">>,
      <<"n1", "n2", "gaussian", "-c", "c1">>, <<"n1", "n2", "-c", "c1", "c2">>,
      <<"n1", "n2", "gaussian", "-o", "a.txt">>, <<"n1", "c1">>,
      <<"n2", "n1", "--outfile", "a.png", "--categoricals", "c1">> }

----------------------------------------------------------------------------
(* Specifications *)

show_dist(tokens) == Enter("show_dist", tokens)

show_biv_dist(tokens) == Enter("show_biv_dist", tokens)

Steps == CheckOutfile \/ BuildPlot \/ Save \/ Display

\* Any token lists, on one dataframe.
Init ==
    /\ data \in SampleDatasets
    /\ on_none \in NoneResults
    /\ Idle
    /\ history = NoHistory

Next ==
    \/ pc = "idle" /\ \E tokens \in DistArgs : show_dist(tokens)
    \/ pc = "idle" /\ \E tokens \in BivArgs : show_biv_dist(tokens)
    \/ Steps
    \/ Return

Spec == Init /\ [][Next]_vars

\* Calls with categoricals, on every dataframe.
InitFacet ==
    /\ data \in Datasets
    /\ on_none \in NoneResults
    /\ Idle
    /\ history = NoHistory

NextFacet ==
    \/ pc = "idle" /\ \E tokens \in DistFacetArgs : show_dist(tokens)
    \/ pc = "idle" /\ \E tokens \in BivFacetArgs : show_biv_dist(tokens)
    \/ Steps
    \/ Return

SpecFacet == InitFacet /\ [][NextFacet]_vars

\* Sequences of calls, the history holding the previous one.
NextCalls ==
    \/ pc = "idle" /\ \E tokens \in DistFewArgs : show_dist(tokens)
    \/ pc = "idle" /\ \E tokens \in BivFewArgs : show_biv_dist(tokens)
    \/ Steps
    \/ ReturnRecorded

SpecCalls == Init /\ [][NextCalls]_vars

----------------------------------------------------------------------------
(* Reading a token list by hand, for the properties: the part each token   *)
(* plays on the command line, told without the parser.  A token after      *)
(* -o/--outfile is the file name; the tokens after -c/--categoricals, up   *)
(* to the next option, are categoricals; every other token is positional.  *)

IsOutfileFlag(t) == t \in {"-o", "--outfile"}

IsCategoricalsFlag(t) == t \in {"-c", "--categoricals"}

RECURSIVE Role(_, _)
Role(tokens, i) ==
    IF IsOutfileFlag(tokens[i]) \/ IsCategoricalsFlag(tokens[i]) THEN "flag"
    ELSE IF i = 1 THEN "positional"
    ELSE IF IsOutfileFlag(tokens[i - 1]) THEN "outfile"
    ELSE IF IsCategoricalsFlag(tokens[i - 1]) THEN "categorical"
    ELSE IF Role(tokens, i - 1) = "categorical" THEN "categorical"
    ELSE "positional"

\* The positional tokens, in order.
RECURSIVE PositionalsUpTo(_, _)
PositionalsUpTo(tokens, n) ==
    IF n = 0 THEN <<>>
    ELSE IF Role(tokens, n) = "positional"
         THEN Append(PositionalsUpTo(tokens, n - 1), tokens[n])
         ELSE PositionalsUpTo(tokens, n - 1)

PositionalTokens(tokens) == PositionalsUpTo(tokens, Len(tokens))

\* The number of variable names a handler takes.
NVariables(h) == IF h = "show_dist" THEN 1 ELSE 2

\* A token in the place of var, v1 or v2 is no numerical column.
BadVariableToken(h, tokens) ==
    LET pos == PositionalTokens(tokens)
    IN  \E k \in 1..Min(Len(pos), NVariables(h)) : pos[k] \notin {"n1", "n2"}

\* A token given to -c/--categoricals is no column.
BadCategoricalToken(tokens) ==
    \E i \in 1..Len(tokens) :
        Role(tokens, i) = "categorical" /\ tokens[i] \notin {"n1", "n2", "c1", "c2"}

\* The token list gives no output file name.
NoOutfileGiven(tokens) == \A i \in 1..Len(tokens) : Role(tokens, i) # "outfile"

\* Nothing of the pipeline after the parse has happened in this call.
NothingPlotted ==
    plot.kind = "none" /\ written = <<>> /\ displayed = <<>>

\* The order of the steps of a handler.
StepOrder == <<"parse", "check", "plot", "save", "display">>

IsPrefix(s, t) == Len(s) <= Len(t) /\ SubSeq(t, 1, Len(s)) = s

----------------------------------------------------------------------------
(* Properties *)

\* C1: in both handlers, once check_valid_png has returned -1 for the parsed
\* output file name, the handler has returned without an exception, and in
\* that call no plot was built, no file written and no image displayed.
C1_InvalidExtensionReturnsSilently ==
    checked.result = "-1" =>
        /\ pc = "returned"
        /\ error = "none"
        /\ trace = <<"parse", "check">>
        /\ NothingPlotted

C1_Witness ==
    /\ handler = "show_biv_dist"
    /\ checked = [arg |-> "a.txt", result |-> "-1"]
    /\ pc = "returned"

\* C2: in both handlers, a token list whose var, v1 or v2 token is no
\* numerical column, or which gives -c/--categoricals a token that is no
\* column, ends in the parser's usage error, which leaves the handler; the
\* extension check has not run, and nothing was plotted, written or displayed.
C2_InvalidNamesRejectedAtParse ==
    (pc # "idle" /\ (BadVariableToken(handler, args) \/ BadCategoricalToken(args))) =>
        /\ pc = "raised"
        /\ error = "SystemExit"
        /\ trace = <<"parse">>
        /\ checked = NotChecked
        /\ NothingPlotted

C2_Witness ==
    /\ handler = "show_dist"
    /\ pc = "raised"
    /\ ~BadVariableToken(handler, args)
    /\ BadCategoricalToken(args)

\* C3: show_dist called with the single token c, a numerical column, never
\* ends in an exception, and when it has returned it has built the one
\* un-faceted histogram with density curve of c and written exactly one
\* file, 'output.png'.
C3_DefaultCallWritesOutputPng ==
    (handler = "show_dist" /\ Len(args) = 1 /\ args[1] \in {"n1", "n2"}) =>
        /\ pc # "raised"
        /\ Finished =>
              /\ plot.kind = "hist" /\ plot.kde /\ ~plot.faceted
              /\ plot.x = args[1]
              /\ NFacets(plot) = 1
              /\ written = <<"output.png">>

C3_Witness ==
    /\ handler = "show_dist"
    /\ args = <<"n2">>
    /\ pc = "returned"
    /\ written = <<"output.png">>

KeyTuple(df, cols, i) == [k \in 1..Len(cols) |-> Column(df, cols[k])[i]]

\* C5: in both handlers, once the plot step has run for two or more
\* categoricals (any columns the parser accepts), a figure has been built in
\* which every row carries the label made of its own values of those
\* columns joined with '_', there is one facet per combination of values
\* that occurs, and two rows share a facet exactly when they agree on every
\* listed column.
C5_OneFacetPerCombination ==
    (Len(parsed_args.categoricals) >= 2 /\ Len(trace) >= 3) =>
        LET cats == parsed_args.categoricals
            rows == 1..NRows(data)
        IN  /\ pc # "raised"
            /\ plot.faceted
            /\ Len(plot.col) = NRows(data)
            /\ \A i \in rows : plot.col[i] = Join(KeyTuple(data, cats, i))
            /\ NFacets(plot) = Cardinality({KeyTuple(data, cats, i) : i \in rows})
            /\ \A i, j \in rows :
                  (plot.col[i] = plot.col[j]) <=>
                      (KeyTuple(data, cats, i) = KeyTuple(data, cats, j))

\* C6: in both handlers, once the plot step has run for exactly one
\* categorical with k distinct values, the figure is faceted on that column
\* with col_wrap 3: it has k subplots, one per distinct value, in min(k, 3)
\* columns and ceil(k / 3) rows, and every row of the dataset is drawn in
\* exactly one subplot, that of its own value.
C6_OneSubplotPerValue ==
    (Len(parsed_args.categoricals) = 1 /\ Len(trace) >= 3) =>
        LET c      == parsed_args.categoricals[1]
            rows   == 1..NRows(data)
            values == {Column(data, c)[i] : i \in rows}
            k      == Cardinality(values)
            facets == 1..NFacets(plot)
        IN  /\ pc # "raised"
            /\ plot.faceted
            /\ plot.col_wrap = 3
            /\ NFacets(plot) = k
            /\ {plot.col_names[j] : j \in facets} = values
            /\ Cardinality({FacetCell(plot, j).col : j \in facets}) = Min(k, 3)
            /\ Cardinality({FacetCell(plot, j).row : j \in facets}) = (k + 2) \div 3
            /\ \A j1, j2 \in facets :
                  FacetCell(plot, j1) = FacetCell(plot, j2) => j1 = j2
            /\ \A i \in rows :
                  /\ Cardinality({j \in facets : i \in FacetRows(plot, j)}) = 1
                  /\ \A j \in facets :
                        i \in FacetRows(plot, j) =>
                            plot.col_names[j] = Column(data, c)[i]

C6_Witness ==
    /\ Len(parsed_args.categoricals) = 1
    /\ pc = "returned"
    /\ NFacets(plot) = 4
    /\ handler = "show_dist"

\* C7: no step of either handler changes the caller's dataset: its columns,
\* its index and its values stay as they were, whatever the token list and
\* however the call ends.
C7_DatasetUnchanged ==
    [][ /\ data'.columns = data.columns
        /\ data'.index = data.index
        /\ data'.n1 = data.n1 /\ data'.n2 = data.n2
        /\ data'.c1 = data.c1 /\ data'.c2 = data.c2 ]_vars

C7_Witness ==
    /\ pc = "returned"
    /\ Len(parsed_args.categoricals) >= 2
    /\ plot_data.columns # data.columns
    /\ Len(displayed) = 1

\* C8: a call that repeats the handler and the token list of the first call
\* of the run ends as the first call did (the same usage error, early
\* return or exception, the same plot, the same path written and
\* displayed), whatever calls were made in between; and a call whose token
\* list has no -o/--outfile or no -c/--categoricals uses the default
\* 'output.png' or the empty list, not a value of an earlier call.
C8_CallsAreStateless ==
    /\ (Finished /\ history.first.handler = handler /\ history.first.args = args) =>
          /\ history.first.pc = pc
          /\ history.first.error = error
          /\ history.first.written = written
          /\ history.first.displayed = displayed
          /\ history.first.ns = parsed_args
          /\ history.first.plot.kind = plot.kind
          /\ history.first.plot = plot
    /\ (pc \notin {"idle", "raised"} /\ \A i \in 1..Len(args) : ~IsOutfileFlag(args[i])) =>
          parsed_args.outfile = "output.png"
    /\ (pc \notin {"idle", "raised"}
          /\ \A i \in 1..Len(args) : ~IsCategoricalsFlag(args[i])) =>
          parsed_args.categoricals = <<>>

C8_Witness ==
    /\ Finished
    /\ history.first.handler = handler
    /\ history.first.args = args
    /\ history.last.handler # "none"
    /\ history.last.args # args
    /\ \E i \in 1..Len(history.last.args) : IsOutfileFlag(history.last.args[i])
    /\ \A i \in 1..Len(args) : ~IsOutfileFlag(args[i])
    /\ Len(displayed) = 1

\* C9: in every call of either handler the steps run in the order parse,
\* check, plot, save, display, each at most once, and a step runs only
\* after all earlier ones succeeded; a call that has displayed an image
\* saved the figure exactly once before, and the path displayed is the path
\* saved to, which is the parsed output file name that passed the check.
C9_StepsInOrder ==
    /\ IsPrefix(trace, StepOrder)
    /\ Len(written) <= 1 /\ Len(displayed) <= 1
    /\ error = "SystemExit" <=> (pc = "raised" /\ trace = <<"parse">>)
    /\ Len(trace) >= 2 => parsed_args # EmptyNamespace
    /\ checked # NotChecked <=> Len(trace) >= 2
    /\ Len(trace) >= 2 => checked.arg = parsed_args.outfile
    /\ Len(trace) >= 3 => checked.result = "0"
    /\ plot.kind # "none" <=> (Len(trace) >= 3 /\ pc # "raised")
    /\ pc = "raised" <=> error # "none"
    /\ Len(written) = 1 <=> Len(trace) >= 4
    /\ Len(displayed) = 1 <=> Len(trace) = 5
    /\ Len(trace) = 5 =>
          /\ pc = "returned"
          /\ displayed = written
          /\ written = <<checked.arg>>
          /\ checked.result = "0"

C9_Witness ==
    /\ trace = StepOrder
    /\ written = <<"a.png">>
    /\ displayed = <<"a.png">>

\* C10: in both handlers, when the token list gives no output file name
\* (no -o/--outfile, or the flag with no value after it), the name handed
\* to the extension check and used for saving is 'output.png'.
C10_NoOutfileMeansDefault ==
    (checked # NotChecked /\ NoOutfileGiven(args)) =>
        /\ checked.arg = "output.png"
        /\ \A i \in 1..Len(written) : written[i] = "output.png"

====
